---- MODULE Spec2Model ----
(***************************************************************************)
(* Model of the booking backend in src/server.js: the User and Booking    *)
(* collections, bearer-token issuance and verification, and the five API  *)
(* routes. Each handler is split at its awaits: a call to the store is    *)
(* sent by the handler, executed by the store in a step of its own, and   *)
(* its reply resumes the handler in a later step, so that concurrent      *)
(* requests interleave where the event loop and the store let them. A     *)
(* write may be applied by the store and its acknowledgement lost.        *)
(***************************************************************************)
EXTENDS Integers, Sequences, FiniteSets, TLC

----------------------------------------------------------------------------
(* Bounds of the model *)

\* number of requests that can be in flight at the same time
NReq == 2
\* the clock is observed during the hours 0..MaxHours
MaxHours == 1
\* number of bookings the Booking collection may hold in the explored runs
MaxBookings == 2
\* number of tokens the clients hold in the explored runs
MaxIssued == 2

Reqs == 1..NReq

----------------------------------------------------------------------------
(* Values *)

\* JavaScript undefined / null
Undefined == [t |-> "undefined"]
Null == [t |-> "null"]
Str(s) == [t |-> "string", v |-> s]

Emails == {"a@x.com", "b@x.com"}
\* bcrypt's key schedule reads this many bytes of key
BcryptKeyBytes == 72
\* passwords are strings, written as sequences of byte values: a short one,
\* and two of one byte more than bcrypt reads that differ in their last byte
Pw1 == Str(<<112, 119, 49>>)
LongPw == Str([i \in 1..(BcryptKeyBytes + 1) |-> 97])
LongPwOther ==
  Str([i \in 1..(BcryptKeyBytes + 1) |-> IF i = BcryptKeyBytes + 1 THEN 98 ELSE 97])
\* request bodies may omit the password (undefined)
Passwords == {Pw1, LongPw, LongPwOther}
PasswordInputs == Passwords \cup {Undefined}
\* bcrypt draws a random salt per hash
Salts == {"s1", "s2"}

\* server configuration (process.env)
JWT_SECRET == "server-secret"
ForeignSecret == "other-secret"

\* jwt.sign's expiresIn: '1h', in seconds
ExpiresIn == 3600
\* milliseconds per hour: Date.now() counts milliseconds
HourMs == ExpiresIn * 1000

\* the instants at which the clock is observed, in milliseconds
TimeOffsets == {0, 500, 60000, 59 * 60000, HourMs - 500}
TimePoints == {h * HourMs + o : h \in 0..MaxHours, o \in TimeOffsets}

----------------------------------------------------------------------------
(* ObjectId and its JSON form *)

\* mongoose generates a fresh ObjectId per document
ObjectId(n) == [oid |-> n]
\* JSON serialisation of an ObjectId inside the token payload: a hex string
ObjectIdToString(id) == [hex |-> id.oid]
\* mongoose casts a hex string back to an ObjectId in queries and documents
CastObjectId(x) == IF "hex" \in DOMAIN x THEN ObjectId(x.hex) ELSE x

----------------------------------------------------------------------------
(* bcryptjs *)

\* bcrypt.hash(password, 10) rejects when the password is not a string
BcryptHashThrows(pw) == pw.t # "string"
\* the key bcrypt hashes: the bytes of the password and a terminating NUL,
\* repeated to fill the bytes the key schedule reads; bytes beyond are not read
BcryptKey(v) ==
  LET k == v \o <<0>>
  IN [i \in 1..BcryptKeyBytes |-> k[((i - 1) % Len(k)) + 1]]
\* the hash records cost and salt; the digest is determined by salt and key
BcryptHash(pw, salt) ==
  [alg |-> "bcrypt", cost |-> 10, salt |-> salt,
   digest |-> <<salt, BcryptKey(pw.v)>>]
IsBcryptHash(h) == DOMAIN h = {"alg", "cost", "salt", "digest"}
\* bcrypt.compare(password, hash) rejects when the password is not a string
BcryptCompareThrows(pw, h) == pw.t # "string"
\* it re-hashes the password with the salt stored in the hash; anything that is
\* not a bcrypt hash compares false
BcryptCompare(pw, h) ==
  /\ IsBcryptHash(h)
  /\ BcryptHash(pw, h.salt) = h

----------------------------------------------------------------------------
(* jsonwebtoken *)

\* timestamps inside a token are whole seconds: Math.floor(Date.now() / 1000)
Seconds(ms) == ms \div 1000

\* jwt.sign(payload, secret, { expiresIn: '1h' })
JwtSign(payload, secret, ms) ==
  [kind |-> "jwt",
   payload |-> [userId |-> payload.userId, email |-> payload.email,
                accountName |-> payload.accountName,
                iat |-> Seconds(ms), exp |-> Seconds(ms) + ExpiresIn],
   sig |-> secret]

\* the other strings a client can put where the token goes
Garbage == [kind |-> "garbage"]
EmptyString == [kind |-> "empty"]
NoToken == [kind |-> "undefined"]

\* (variant: verification ignores the exp claim)
JwtNeverExpired(tok, ms) == FALSE

\* the exp check of jwt.verify
JwtExpired(tok, ms) == Seconds(ms) >= tok.payload.exp

\* jwt.verify(token, secret, callback): the error it reports, "none" when valid
JwtVerifyError(tok, secret, ms) ==
  IF tok.kind # "jwt" THEN "JsonWebTokenError"
  ELSE IF tok.sig # secret THEN "JsonWebTokenError"
  ELSE IF JwtExpired(tok, ms) THEN "TokenExpiredError"
  ELSE "none"

----------------------------------------------------------------------------
(* The Authorization header and authenticateToken *)

\* a header value is a sequence of characters; only its spaces and the words
\* between them matter here, so a word is one element
SP == [kind |-> "sp"]
Bearer == [kind |-> "word"]
AbsentHeader == [present |-> FALSE, chars |-> <<>>]
HeaderOf(chars) == [present |-> TRUE, chars |-> chars]

\* String.prototype.split(' '): the segments between the spaces
RECURSIVE SplitSp(_)
SplitSp(s) ==
  IF s = <<>> THEN << <<>> >>
  ELSE LET rest == SplitSp(Tail(s))
       IN IF Head(s) = SP
          THEN << <<>> >> \o rest
          ELSE << <<Head(s)>> \o rest[1] >> \o Tail(rest)

\* the string a segment spells: empty, one word, or several words run together
SegmentString(seg) ==
  IF seg = <<>> THEN EmptyString
  ELSE IF Len(seg) = 1 THEN seg[1]
  ELSE Garbage

\* const token = authHeader && authHeader.split(' ')[1]
\* (an absent header is undefined, and an empty one is falsy and is the result)
ExtractToken(h) ==
  IF ~h.present THEN NoToken
  ELSE IF h.chars = <<>> THEN EmptyString
  ELSE LET parts == SplitSp(h.chars)
       IN IF Len(parts) >= 2 THEN SegmentString(parts[2]) ELSE NoToken

Msg(m) == [message |-> m]

\* authenticateToken: the response it sends, or next() with req.user bound
Authenticate(h, ms) ==
  LET token == ExtractToken(h)
      err == JwtVerifyError(token, JWT_SECRET, ms)
  IN IF token = NoToken
     THEN [next |-> FALSE, status |-> 401,
           res |-> Msg("Authentication token required."), user |-> Undefined]
     ELSE IF err # "none"
     THEN [next |-> FALSE, status |-> 403,
           res |-> Msg("Invalid or expired token."), user |-> Undefined]
     ELSE [next |-> TRUE, status |-> 0, res |-> Undefined, user |-> token.payload]

----------------------------------------------------------------------------
(* State *)

VARIABLES
  users,      \* the User collection, in insertion order
  bookings,   \* the Booking collection, in insertion order
  now,        \* Date.now(), in milliseconds
  issued,     \* the tokens the clients hold, each with the instant it was issued
  req         \* the requests in flight: body, handler position, the reply of
              \* the awaited call on its way to the handler, locals, response

vars == <<users, bookings, now, issued, req>>

\* a free request slot
Idle ==
  [kind |-> "none", pc |-> "idle", body |-> Undefined, header |-> AbsentHeader,
   reply |-> Undefined, user |-> Null, hashedPassword |-> Undefined,
   reqUser |-> Undefined, status |-> 0, res |-> Undefined, err |-> "none"]

\* the awaited call resolves with a value, or rejects with an error
Resolved(v) == [err |-> "none", value |-> v]
Rejected(e) == [err |-> e, value |-> Undefined]

\* res.status(s).json(b): the handler has answered
Respond(r, s, b) == [r EXCEPT !.pc = "done", !.status = s, !.res = b]
\* the catch block of every handler
Catch(r, e) ==
  [r EXCEPT !.pc = "done", !.status = 500,
            !.res = Msg("Internal server error."), !.err = e]

Init ==
  /\ users = <<>>
  /\ bookings = <<>>
  /\ now = 0
  /\ issued = {}
  /\ req = [r \in Reqs |-> Idle]

\* how a write sent to the store can end: applied and acknowledged, not
\* applied (the call throws), or applied with the acknowledgement lost (the
\* call throws all the same)
WriteOutcomes == {"ok", "failed", "lost"}

----------------------------------------------------------------------------
(* The User collection *)

\* User.findOne({ email }): the first document with that email, or null
FindUserByEmail(us, email) ==
  IF \E i \in 1..Len(us) : us[i].email = email
  THEN us[CHOOSE i \in 1..Len(us) :
            /\ us[i].email = email
            /\ \A j \in 1..(i - 1) : us[j].email # email]
  ELSE Null

\* mongoose validation of a User document: the required string fields
UserValid(doc) == doc.accountName # "" /\ doc.email # "" /\ doc.password # Undefined

\* (variant: the collection has no unique index on email)
DuplicateEmailNoIndex(us, email) == FALSE

\* the unique index on email refuses a second document with the same email
DuplicateEmail(us, email) == \E i \in 1..Len(us) : us[i].email = email

\* User.create(doc): the error it throws before anything is written, "none"
\* when the document is accepted
UserCreateError(us, doc) ==
  IF ~UserValid(doc) THEN "ValidationError"
  ELSE IF DuplicateEmail(us, doc.email) THEN "E11000 duplicate key"
  ELSE "none"

\* the document User.create inserts
NewUser(us, doc) ==
  [id |-> ObjectId(Len(us) + 1), accountName |-> doc.accountName,
   email |-> doc.email, password |-> doc.password, __v |-> 0]

----------------------------------------------------------------------------
(* POST /signup *)

\* the request arrives; the handler sends User.findOne({ email }) and awaits it
Signup_arrive(r, bodies) ==
  /\ req[r].pc = "idle"
  /\ \E body \in bodies :
       req' = [req EXCEPT ![r] =
         [Idle EXCEPT !.kind = "signup", !.body = body, !.pc = "findOne"]]
  /\ UNCHANGED <<users, bookings, now, issued>>

\* the store executes the findOne; its reply travels back
Signup_findOne(r) ==
  /\ req[r].kind = "signup"
  /\ req[r].pc = "findOne"
  /\ \E dbOk \in BOOLEAN :
       req' = [req EXCEPT ![r].pc = "findOneReply",
                          ![r].reply =
                            IF dbOk
                            THEN Resolved(FindUserByEmail(users, req[r].body.email))
                            ELSE Rejected("MongoNetworkError")]
  /\ UNCHANGED <<users, bookings, now, issued>>

\* the handler resumes with existingUser: 409, or bcrypt.hash is awaited
Signup_afterFindOne(r) ==
  /\ req[r].kind = "signup"
  /\ req[r].pc = "findOneReply"
  /\ LET q == req[r]
         existingUser == q.reply.value
     IN req' = [req EXCEPT ![r] =
          IF q.reply.err # "none" THEN Catch(q, q.reply.err)
          ELSE IF existingUser # Null
          THEN Respond([q EXCEPT !.user = existingUser], 409,
                       Msg("User already exists with this email."))
          ELSE [q EXCEPT !.pc = "hash"]]
  /\ UNCHANGED <<users, bookings, now, issued>>

\* bcrypt.hash(password, 10) resolves or throws; the handler sends User.create
Signup_hash(r) ==
  /\ req[r].pc = "hash"
  /\ \E salt \in Salts :
       req' = [req EXCEPT ![r] =
         IF BcryptHashThrows(req[r].body.password)
         THEN Catch(req[r], "Illegal arguments")
         ELSE [req[r] EXCEPT !.pc = "create",
                  !.hashedPassword = BcryptHash(req[r].body.password, salt)]]
  /\ UNCHANGED <<users, bookings, now, issued>>

\* the document the handler passes to User.create
SignupDocument(r) ==
  [accountName |-> r.body.accountName, email |-> r.body.email,
   password |-> r.hashedPassword]

\* User.create: validation, then the store executes the insert; its reply
\* travels back
Signup_create(r) ==
  /\ req[r].pc = "create"
  /\ LET doc == SignupDocument(req[r])
         e == UserCreateError(users, doc)
         newUser == NewUser(users, doc)
     IN IF e # "none"
        THEN /\ req' = [req EXCEPT ![r].pc = "createReply",
                                   ![r].reply = Rejected(e)]
             /\ UNCHANGED users
        ELSE \E outcome \in WriteOutcomes :
               /\ users' = IF outcome = "failed" THEN users
                           ELSE Append(users, newUser)
               /\ req' = [req EXCEPT ![r].pc = "createReply",
                                     ![r].reply =
                                       IF outcome = "ok" THEN Resolved(newUser)
                                       ELSE Rejected("MongoNetworkError")]
  /\ UNCHANGED <<bookings, now, issued>>

\* the handler resumes with newUser: 201 with its id, or the catch block
Signup_afterCreate(r) ==
  /\ req[r].pc = "createReply"
  /\ LET q == req[r]
     IN req' = [req EXCEPT ![r] =
          IF q.reply.err # "none" THEN Catch(q, q.reply.err)
          ELSE Respond(q, 201,
                       [message |-> "Account created successfully!",
                        userId |-> q.reply.value.id])]
  /\ UNCHANGED <<users, bookings, now, issued>>

----------------------------------------------------------------------------
(* POST /signin *)

\* the request arrives; the handler sends User.findOne({ email }) and awaits it
Signin_arrive(r, bodies) ==
  /\ req[r].pc = "idle"
  /\ Cardinality(issued) < MaxIssued
  /\ \E body \in bodies :
       req' = [req EXCEPT ![r] =
         [Idle EXCEPT !.kind = "signin", !.body = body, !.pc = "findOne"]]
  /\ UNCHANGED <<users, bookings, now, issued>>

\* the store executes the findOne; its reply travels back
Signin_findOne(r) ==
  /\ req[r].kind = "signin"
  /\ req[r].pc = "findOne"
  /\ \E dbOk \in BOOLEAN :
       req' = [req EXCEPT ![r].pc = "findOneReply",
                          ![r].reply =
                            IF dbOk
                            THEN Resolved(FindUserByEmail(users, req[r].body.email))
                            ELSE Rejected("MongoNetworkError")]
  /\ UNCHANGED <<users, bookings, now, issued>>

\* the handler resumes with user: 401, or bcrypt.compare is awaited
Signin_afterFindOne(r) ==
  /\ req[r].kind = "signin"
  /\ req[r].pc = "findOneReply"
  /\ LET q == req[r]
         user == q.reply.value
     IN req' = [req EXCEPT ![r] =
          IF q.reply.err # "none" THEN Catch(q, q.reply.err)
          ELSE IF user = Null
          THEN Respond(q, 401, Msg("Invalid credentials."))
          ELSE [q EXCEPT !.pc = "compare", !.user = user]]
  /\ UNCHANGED <<users, bookings, now, issued>>

\* the payload the handler signs
SigninPayload(user) ==
  [userId |-> ObjectIdToString(user.id), email |-> user.email,
   accountName |-> user.accountName]

\* bcrypt.compare resolves or throws, then the token is signed and sent
Signin_compare(r) ==
  /\ req[r].pc = "compare"
  /\ LET q == req[r]
         token == JwtSign(SigninPayload(q.user), JWT_SECRET, now)
     IN IF BcryptCompareThrows(q.body.password, q.user.password)
        THEN /\ req' = [req EXCEPT ![r] = Catch(q, "Illegal arguments")]
             /\ UNCHANGED issued
        ELSE IF ~BcryptCompare(q.body.password, q.user.password)
        THEN /\ req' = [req EXCEPT ![r] =
                  Respond(q, 401, Msg("Invalid credentials."))]
             /\ UNCHANGED issued
        ELSE /\ req' = [req EXCEPT ![r] =
                  Respond(q, 200,
                          [message |-> "Sign-in successful!", token |-> token])]
             /\ issued' = issued \cup {[token |-> token, at |-> now]}
  /\ UNCHANGED <<users, bookings, now>>

----------------------------------------------------------------------------
(* What a client can send in the Authorization header *)

\* a token signed with a key that is not the server's, naming the first account
ForgedToken(ms) ==
  JwtSign([userId |-> ObjectIdToString(ObjectId(1)), email |-> "a@x.com",
           accountName |-> "Alice"], ForeignSecret, ms)

\* the tokens the clients were given by POST /signin
IssuedTokens == {i.token : i \in issued}

\* "Bearer <token>" with a token from POST /signin, or no header at all
BearerHeaders ==
  {AbsentHeader} \cup {HeaderOf(<<Bearer, SP, t>>) : t \in IssuedTokens}

\* every shape of header: absent, empty, without a token, with a token that is
\* not a JWT or not signed by the server, with two spaces, without the scheme
AnyHeaders(ms) ==
  BearerHeaders
  \cup {HeaderOf(<<>>), HeaderOf(<<Bearer>>)}
  \cup {HeaderOf(<<Bearer, SP, t>>) : t \in {Garbage, ForgedToken(ms)}}
  \cup {HeaderOf(<<Bearer, SP, SP, t>>) : t \in IssuedTokens}
  \cup {HeaderOf(<<t>>) : t \in IssuedTokens}

\* a protected route: authenticateToken answers, or the handler starts and
\* awaits at `pc`
Protected(kind, body, h, pc) ==
  LET a == Authenticate(h, now)
      q == [Idle EXCEPT !.kind = kind, !.body = body, !.header = h]
  IN IF a.next
     THEN [q EXCEPT !.pc = pc, !.reqUser = a.user]
     ELSE Respond(q, a.status, a.res)

----------------------------------------------------------------------------
(* GET /fetch-account-name *)

\* the request arrives; authenticateToken and the handler run without awaiting
FetchAccountName(r, headers) ==
  /\ req[r].pc = "idle"
  /\ \E h \in headers :
       LET q == Protected("fetch", Undefined, h, "handler")
       IN req' = [req EXCEPT ![r] =
            IF q.pc = "handler"
            THEN Respond(q, 200, [accountName |-> q.reqUser.accountName])
            ELSE q]
  /\ UNCHANGED <<users, bookings, now, issued>>

----------------------------------------------------------------------------
(* The Booking collection *)

\* mongoose validation of a Booking document: the required fields
BookingValid(doc) ==
  doc.date # <<>> /\ doc.time # <<>> /\ doc.service # "" /\ doc.userId # Undefined

\* the document Booking.create inserts
NewBooking(bs, doc) ==
  [id |-> ObjectId(Len(bs) + 1), date |-> doc.date, time |-> doc.time,
   service |-> doc.service, userId |-> CastObjectId(doc.userId), __v |-> 0]

\* string comparison as MongoDB sorts strings: character by character
RECURSIVE StrLess(_, _)
StrLess(a, b) ==
  IF b = <<>> THEN FALSE
  ELSE IF a = <<>> THEN TRUE
  ELSE IF Head(a) < Head(b) THEN TRUE
  ELSE IF Head(a) > Head(b) THEN FALSE
  ELSE StrLess(Tail(a), Tail(b))

\* (variant: the sort is by date alone)
SortsBeforeByDate(x, y) == StrLess(x.date, y.date)

\* the order of .sort({ date: 1, time: 1 })
SortsBefore(x, y) ==
  \/ StrLess(x.date, y.date)
  \/ x.date = y.date /\ StrLess(x.time, y.time)

\* the rearrangements of the sequence s
Rearrangements(s) ==
  {[i \in 1..Len(s) |-> s[f[i]]] :
     f \in {g \in [1..Len(s) -> 1..Len(s)] :
              \A i, j \in 1..Len(s) : g[i] = g[j] => i = j}}

\* the results the sort may give: every rearrangement in which no document
\* comes after one it sorts before (MongoDB fixes no order among equal keys)
SortedOrders(s) ==
  {t \in Rearrangements(s) :
     \A i, j \in 1..Len(t) : i < j => ~SortsBefore(t[j], t[i])}

\* (variant: the query has no owner filter)
FindBookingsUnscoped(bs, userId) == bs

\* Booking.find({ userId }): the documents of that owner
FindBookings(bs, userId) ==
  SelectSeq(bs, LAMBDA b : b.userId = CastObjectId(userId))

\* Booking.find({ userId }).sort({ date: 1, time: 1 }): its possible results
FindSortedBookings(bs, userId) == SortedOrders(FindBookings(bs, userId))

----------------------------------------------------------------------------
(* POST /bookings *)

\* the creates that have been sent and not yet executed
BookingsInFlight == Cardinality({q \in Reqs : req[q].pc = "bookingCreate"})

\* the request arrives and passes authenticateToken; the handler sends
\* Booking.create and awaits it
PostBookings_auth(r, headers, bodies) ==
  /\ req[r].pc = "idle"
  /\ Len(bookings) + BookingsInFlight < MaxBookings
  /\ \E h \in headers, body \in bodies :
       req' = [req EXCEPT ![r] =
         Protected("postBookings", body, h, "bookingCreate")]
  /\ UNCHANGED <<users, bookings, now, issued>>

\* the document the handler passes to Booking.create
BookingDocument(r) ==
  [date |-> r.body.date, time |-> r.body.time, service |-> r.body.service,
   userId |-> r.reqUser.userId]

\* Booking.create: validation, then the store executes the insert; its reply
\* travels back
PostBookings_create(r) ==
  /\ req[r].pc = "bookingCreate"
  /\ LET doc == BookingDocument(req[r])
         newBooking == NewBooking(bookings, doc)
     IN IF ~BookingValid(doc)
        THEN /\ req' = [req EXCEPT ![r].pc = "bookingCreateReply",
                                   ![r].reply = Rejected("ValidationError")]
             /\ UNCHANGED bookings
        ELSE \E outcome \in WriteOutcomes :
               /\ bookings' = IF outcome = "failed" THEN bookings
                              ELSE Append(bookings, newBooking)
               /\ req' = [req EXCEPT ![r].pc = "bookingCreateReply",
                                     ![r].reply =
                                       IF outcome = "ok" THEN Resolved(newBooking)
                                       ELSE Rejected("MongoNetworkError")]
  /\ UNCHANGED <<users, now, issued>>

\* the handler resumes with newBooking: 201 with the booking, or the catch block
PostBookings_afterCreate(r) ==
  /\ req[r].pc = "bookingCreateReply"
  /\ LET q == req[r]
     IN req' = [req EXCEPT ![r] =
          IF q.reply.err # "none" THEN Catch(q, q.reply.err)
          ELSE Respond(q, 201,
                       [message |-> "Booking created successfully!",
                        booking |-> q.reply.value])]
  /\ UNCHANGED <<users, bookings, now, issued>>

----------------------------------------------------------------------------
(* GET /bookings *)

\* the request arrives and passes authenticateToken; the handler sends the
\* query and awaits it
GetBookings_auth(r, headers) ==
  /\ req[r].pc = "idle"
  /\ \E h \in headers :
       req' = [req EXCEPT ![r] =
         Protected("getBookings", Undefined, h, "bookingFind")]
  /\ UNCHANGED <<users, bookings, now, issued>>

\* the store executes find and sort; its reply travels back
GetBookings_find(r) ==
  /\ req[r].pc = "bookingFind"
  /\ \/ \E list \in FindSortedBookings(bookings, req[r].reqUser.userId) :
          req' = [req EXCEPT ![r].pc = "bookingFindReply",
                             ![r].reply = Resolved(list)]
     \/ req' = [req EXCEPT ![r].pc = "bookingFindReply",
                           ![r].reply = Rejected("MongoNetworkError")]
  /\ UNCHANGED <<users, bookings, now, issued>>

\* the handler resumes with the list and sends it, or the catch block
GetBookings_afterFind(r) ==
  /\ req[r].pc = "bookingFindReply"
  /\ LET q == req[r]
     IN req' = [req EXCEPT ![r] =
          IF q.reply.err # "none" THEN Catch(q, q.reply.err)
          ELSE Respond(q, 200, q.reply.value)]
  /\ UNCHANGED <<users, bookings, now, issued>>

----------------------------------------------------------------------------
(* Environment *)

\* time passes
Tick(points) ==
  /\ \E t \in points : t > now /\ now' = t
  /\ UNCHANGED <<users, bookings, issued, req>>

\* the client has read the response; the slot serves the next request
Deliver(r) ==
  /\ req[r].pc = "done"
  /\ req' = [req EXCEPT ![r] = Idle]
  /\ UNCHANGED <<users, bookings, now, issued>>

----------------------------------------------------------------------------
(* Request bodies the clients send *)

SignupBody(name, email, pw) ==
  [accountName |-> name, email |-> email, password |-> pw]
SigninBody(email, pw) == [email |-> email, password |-> pw]
BookingBody(date, time, service) ==
  [date |-> date, time |-> time, service |-> service]

\* signups that compete for the same addresses
RaceSignups ==
  {SignupBody("Alice", e, Pw1) : e \in Emails}
  \cup {SignupBody("", "a@x.com", Pw1), SignupBody("Bob", "a@x.com", Undefined)}

\* signups and signins with every combination of address and password
AccountSignups == {SignupBody("Alice", e, pw) : e \in Emails, pw \in PasswordInputs}
AccountSignins == {SigninBody(e, pw) : e \in Emails, pw \in PasswordInputs}

\* one account, with its right password, a wrong one and none
OneSignup == {SignupBody("Alice", "a@x.com", Pw1)}
OneSignin == {SigninBody("a@x.com", pw) : pw \in PasswordInputs}
RightSignin == {SigninBody("a@x.com", Pw1)}
\* the same account's signup, and one whose body has no password
SystemSignups == OneSignup \cup {SignupBody("Alice", "a@x.com", Undefined)}

\* two accounts, each with its own password
TwoSignups ==
  {SignupBody("Alice", "a@x.com", Pw1), SignupBody("Bob", "b@x.com", LongPw)}
TwoSignins ==
  {SigninBody("a@x.com", Pw1), SigninBody("b@x.com", LongPw)}

OneBooking == {BookingBody(<<2>>, <<9>>, "haircut")}
SomeBookings == OneBooking \cup {BookingBody(<<>>, <<9>>, "haircut")}
\* dates and times are strings, written as sequences of character codes;
\* MongoDB's sort compares them lexicographically, so "10" sorts before "9":
\* bookings whose dates and times sort differently as strings and as numbers
AllBookings ==
  {BookingBody(<<2>>, <<9>>, "haircut"), BookingBody(<<2>>, <<1, 0>>, "haircut"),
   BookingBody(<<1, 0>>, <<1, 0>>, "haircut")}

----------------------------------------------------------------------------
(* Specifications *)

\* the whole server, two requests in flight
Next ==
  \/ Tick({HourMs})
  \/ \E r \in {1, 2} :
       \/ Signup_arrive(r, SystemSignups)
       \/ Signup_findOne(r)
       \/ Signup_afterFindOne(r)
       \/ Signup_hash(r)
       \/ Signup_create(r)
       \/ Signup_afterCreate(r)
       \/ Signin_arrive(r, OneSignin)
       \/ Signin_findOne(r)
       \/ Signin_afterFindOne(r)
       \/ Signin_compare(r)
       \/ FetchAccountName(r, BearerHeaders)
       \/ PostBookings_auth(r, BearerHeaders, SomeBookings)
       \/ PostBookings_create(r)
       \/ PostBookings_afterCreate(r)
       \/ GetBookings_auth(r, BearerHeaders)
       \/ GetBookings_find(r)
       \/ GetBookings_afterFind(r)
       \/ Deliver(r)

Spec == Init /\ [][Next]_vars

\* concurrent signups
NextSignup ==
  \E r \in Reqs :
    \/ Signup_arrive(r, RaceSignups)
    \/ Signup_findOne(r)
    \/ Signup_afterFindOne(r)
    \/ Signup_hash(r)
    \/ Signup_create(r)
    \/ Signup_afterCreate(r)
    \/ Deliver(r)

SpecSignup == Init /\ [][NextSignup]_vars

\* signup and signin side by side: signups in one slot, signins in the other
NextAccounts ==
  \/ Signup_arrive(1, AccountSignups)
  \/ Signup_findOne(1)
  \/ Signup_afterFindOne(1)
  \/ Signup_hash(1)
  \/ Signup_create(1)
  \/ Signup_afterCreate(1)
  \/ Signin_arrive(2, AccountSignins)
  \/ Signin_findOne(2)
  \/ Signin_afterFindOne(2)
  \/ Signin_compare(2)
  \/ \E r \in {1, 2} : Deliver(r)

SpecAccounts == Init /\ [][NextAccounts]_vars

\* tokens over time: one account signs in and uses its tokens as the clock advances
NextAuth ==
  \/ Tick(TimePoints)
  \/ Signup_arrive(1, OneSignup)
  \/ Signup_findOne(1)
  \/ Signup_afterFindOne(1)
  \/ Signup_hash(1)
  \/ Signup_create(1)
  \/ Signup_afterCreate(1)
  \/ Signin_arrive(1, RightSignin)
  \/ Signin_findOne(1)
  \/ Signin_afterFindOne(1)
  \/ Signin_compare(1)
  \/ FetchAccountName(1, AnyHeaders(now))
  \/ PostBookings_auth(1, AnyHeaders(now), OneBooking)
  \/ PostBookings_create(1)
  \/ PostBookings_afterCreate(1)
  \/ GetBookings_auth(1, AnyHeaders(now))
  \/ GetBookings_find(1)
  \/ GetBookings_afterFind(1)
  \/ Deliver(1)

SpecAuth == Init /\ [][NextAuth]_vars

\* two accounts and their bookings: one slot makes the accounts and creates
\* the bookings, the other lists them while that goes on
NextBookings ==
  \/ Signup_arrive(1, TwoSignups)
  \/ Signup_findOne(1)
  \/ Signup_afterFindOne(1)
  \/ Signup_hash(1)
  \/ Signup_create(1)
  \/ Signup_afterCreate(1)
  \/ Signin_arrive(1, TwoSignins)
  \/ Signin_findOne(1)
  \/ Signin_afterFindOne(1)
  \/ Signin_compare(1)
  \/ PostBookings_auth(1, BearerHeaders, AllBookings)
  \/ PostBookings_create(1)
  \/ PostBookings_afterCreate(1)
  \/ GetBookings_auth(2, BearerHeaders)
  \/ GetBookings_find(2)
  \/ GetBookings_afterFind(2)
  \/ \E r \in {1, 2} : Deliver(r)

SpecBookings == Init /\ [][NextBookings]_vars

----------------------------------------------------------------------------
(* Vocabulary of the properties *)

Done(q) == q.pc = "done"
ProtectedKinds == {"fetch", "postBookings", "getBookings"}
ErrorStatuses == {401, 403, 409, 500}

\* request r is answered in this step
Answered(r) == req[r].pc # "done" /\ req'[r].pc = "done"
\* request r arrives in this step
Arrives(r) == req[r].pc = "idle" /\ req'[r].pc # "idle"
\* the store executes in this step the call that request r awaits at `pc`
Executes(r, pc) == req[r].pc = pc /\ req'[r].pc # pc
\* the handler behind authenticateToken has run, or is running
HandlerRan(q) ==
  \/ q.pc \in {"bookingCreate", "bookingCreateReply", "bookingFind", "bookingFindReply"}
  \/ q.kind = "fetch" /\ q.status = 200
  \/ q.kind \in {"postBookings", "getBookings"} /\ q.status \in {200, 201, 500}

----------------------------------------------------------------------------
(* Properties of POST /signup under concurrency *)

\* C1: in every reachable state, whatever the interleaving of concurrent
\* signups, no two accounts of the User collection have the same email.
C1_EmailUnique ==
  \A i, j \in 1..Len(users) : users[i].email = users[j].email => i = j

\* two signups for one address both passed findOne, one was inserted and the
\* unique index refused the other
C1_Witness ==
  \E r \in Reqs :
    /\ Done(req[r])
    /\ req[r].err = "E11000 duplicate key"
    /\ \E i \in 1..Len(users) : users[i].email = req[r].body.email

\* the signup r was rejected because its email is held by a stored account:
\* findOne found the account, or the unique index refused the insert
RejectedForEmail(q) ==
  /\ q.kind = "signup"
  /\ Done(q)
  /\ q.user # Null \/ q.err = "E11000 duplicate key"

\* C2: every signup rejected because its email is already held by a stored
\* account is answered with 409, also when the colliding account was inserted
\* between this request's findOne and its create.
C2_DuplicateIs409 ==
  \A r \in Reqs :
    RejectedForEmail(req[r]) =>
      /\ req[r].status = 409
      /\ Cardinality({i \in 1..Len(users) : users[i].email = req[r].body.email}) = 1

----------------------------------------------------------------------------
(* Properties of authenticateToken *)

\* no token can be extracted from the header: it is absent, or nothing follows
\* a scheme in it (it is empty, or it is a single word with no space after it)
NoTokenIn(h) ==
  \/ ~h.present
  \/ \A k \in 1..Len(h.chars) : h.chars[k] # SP

\* what the header carries where the token goes: what stands between its first
\* space and the next one, the empty string when nothing does
TokenIn(h) ==
  LET k == CHOOSE n \in 1..Len(h.chars) :
             h.chars[n] = SP /\ \A m \in 1..(n - 1) : h.chars[m] # SP
  IN IF k < Len(h.chars) /\ h.chars[k + 1] # SP
     THEN h.chars[k + 1]
     ELSE EmptyString

\* the token is one POST /signin issued and its expiry lies in the future
ValidAt(tok, ms) ==
  /\ tok \in IssuedTokens
  /\ Seconds(ms) < tok.payload.exp

\* the identity is that of a stored account
IdentityOfAccount(id) ==
  \E k \in 1..Len(users) :
    /\ ObjectIdToString(users[k].id) = id.userId
    /\ users[k].email = id.email
    /\ users[k].accountName = id.accountName

\* the three outcomes of authenticateToken for the request r arriving in this step
AuthOutcome(r) ==
  LET q == req'[r]
      tok == TokenIn(q.header)
  IN /\ NoTokenIn(q.header) =>
          Done(q) /\ q.status = 401 /\ ~HandlerRan(q) /\ q.reqUser = Undefined
     /\ ~NoTokenIn(q.header) /\ ~ValidAt(tok, now) =>
          Done(q) /\ q.status = 403 /\ ~HandlerRan(q) /\ q.reqUser = Undefined
     /\ ~NoTokenIn(q.header) /\ ValidAt(tok, now) =>
          HandlerRan(q) /\ q.reqUser = tok.payload
     /\ HandlerRan(q) => q.reqUser # Undefined /\ IdentityOfAccount(q.reqUser)

\* C3: a request to a protected route gets exactly one of: 401 without the
\* handler when the header carries no token; 403 without the handler when the
\* token is malformed, badly signed or expired; the handler, with req.user bound
\* to the token's identity, when the token is valid. The handler never runs
\* without a verified identity.
C3_AuthOutcomes ==
  [][\A r \in Reqs :
       Arrives(r) /\ req'[r].kind \in ProtectedKinds => AuthOutcome(r)]_vars

\* request r arrives in this step at a protected route with "Bearer <tok>"
Presents(r, tok) ==
  /\ Arrives(r)
  /\ req'[r].kind \in ProtectedKinds
  /\ req'[r].header = HeaderOf(<<Bearer, SP, tok>>)

Accepted(q) == HandlerRan(q)
Rejected403(q) == Done(q) /\ q.status = 403 /\ ~HandlerRan(q)

\* a token once expired stays expired as the clock advances
ExpiredForGood ==
  \A i \in issued :
    JwtVerifyError(i.token, JWT_SECRET, now) = "TokenExpiredError"
      => JwtVerifyError(i.token, JWT_SECRET, now') = "TokenExpiredError"

\* C4 as claimed: a token issued at T is accepted at every time strictly before
\* T + 1 hour and rejected with 403 at every time after T + 1 hour; once
\* rejected as expired it is never accepted again.
C4_Original ==
  [][/\ \A r \in Reqs, i \in issued :
          Presents(r, i.token) =>
            /\ now < i.at + HourMs => Accepted(req'[r])
            /\ now > i.at + HourMs => Rejected403(req'[r])
     /\ ExpiredForGood]_vars

\* C4 as amended: a token issued at T is accepted at every time up to
\* T + 1 hour - 1 second and rejected with 403 at every time from T + 1 hour on
\* (in the second before T + 1 hour it is rejected once the clock's whole second
\* reaches the token's exp); once rejected as expired it is never accepted again.
C4_Expiry ==
  [][/\ \A r \in Reqs, i \in issued :
          Presents(r, i.token) =>
            /\ now + 1000 <= i.at + HourMs => Accepted(req'[r])
            /\ now >= i.at + HourMs => Rejected403(req'[r])
     /\ ExpiredForGood]_vars

\* a token issued at time 0 is presented exactly one hour later and is refused
C4_Witness ==
  \E r \in Reqs, i \in issued :
    /\ i.at = 0
    /\ now = HourMs
    /\ req[r].header = HeaderOf(<<Bearer, SP, i.token>>)
    /\ Rejected403(req[r])

----------------------------------------------------------------------------
(* Properties of the Booking routes *)

\* the stored account that a verified identity names by its email
AccountOf(id) ==
  CHOOSE k \in 1..Len(users) : users[k].email = id.email

\* the list the store returns to request r in this step holds each booking of
\* the token's account once, and nothing else
ListsOwnBookings(r) ==
  LET list == req'[r].reply.value
      owner == users[AccountOf(req[r].reqUser)].id
  IN /\ \A i \in 1..Len(list) :
          /\ list[i].userId = owner
          /\ \E j \in 1..Len(bookings) : bookings[j] = list[i]
     /\ \A j \in 1..Len(bookings) :
          bookings[j].userId = owner => \E i \in 1..Len(list) : list[i] = bookings[j]
     /\ \A i, j \in 1..Len(list) : list[i] = list[j] => i = j

\* the booking stored for request r in this step belongs to the token's account
StoresOwnBooking(r) ==
  /\ Len(bookings') = Len(bookings) + 1
  /\ bookings'[Len(bookings')].userId = users[AccountOf(req[r].reqUser)].id
  /\ bookings'[Len(bookings')].date = req[r].body.date
  /\ bookings'[Len(bookings')].time = req[r].body.time

\* C5: GET /bookings with a valid token of account A returns exactly the
\* bookings whose owner is A, none created under another account's token and all
\* of A's: the query, when the store executes it, yields exactly A's bookings,
\* and the handler sends that list as it is; every booking is stored under the
\* account whose token created it.
C5_OwnBookings ==
  [][\A r \in Reqs :
       /\ Executes(r, "bookingFind") /\ req'[r].reply.err = "none"
            => ListsOwnBookings(r)
       /\ Answered(r) /\ req'[r].kind = "getBookings" /\ req'[r].status = 200
            => /\ req'[r].res = req[r].reply.value
               /\ \A i \in 1..Len(req'[r].res) :
                    /\ req'[r].res[i].userId = users[AccountOf(req[r].reqUser)].id
                    /\ \E j \in 1..Len(bookings) : bookings[j] = req'[r].res[i]
       /\ Executes(r, "bookingCreate") /\ bookings' # bookings
            => StoresOwnBooking(r)
       /\ Answered(r) /\ req'[r].kind = "postBookings" /\ req'[r].status = 201
            => /\ req'[r].res.booking.userId = users[AccountOf(req[r].reqUser)].id
               /\ \E j \in 1..Len(bookings) : bookings[j] = req'[r].res.booking]_vars

\* a list was returned to one account while the collection held a booking of
\* another
C5_Witness ==
  \E r \in Reqs :
    /\ Done(req[r]) /\ req[r].kind = "getBookings" /\ req[r].status = 200
    /\ Len(req[r].res) >= 1
    /\ \E j \in 1..Len(bookings) : bookings[j].userId # req[r].res[1].userId

\* a <= b in lexicographic order: they agree on a prefix after which a ends or
\* has the smaller character
LexLeq(a, b) ==
  \E k \in 0..Len(a) :
    /\ k <= Len(b)
    /\ \A m \in 1..k : a[m] = b[m]
    /\ k = Len(a) \/ (k < Len(b) /\ a[k + 1] < b[k + 1])

KeyLeq(x, y) ==
  /\ LexLeq(x.date, y.date)
  /\ x.date = y.date => LexLeq(x.time, y.time)

\* C6: the sequence GET /bookings returns is non-decreasing in (date, time)
\* under lexicographic string comparison, whatever the order of creation.
C6_Sorted ==
  \A r \in Reqs :
    Done(req[r]) /\ req[r].kind = "getBookings" /\ req[r].status = 200 =>
      \A i, j \in 1..Len(req[r].res) :
        i < j => KeyLeq(req[r].res[i], req[r].res[j])

\* a booking created later is listed first
C6_Witness ==
  \E r \in Reqs :
    /\ Done(req[r]) /\ req[r].kind = "getBookings" /\ req[r].status = 200
    /\ Len(req[r].res) >= 2
    /\ req[r].res[1].id.oid > req[r].res[2].id.oid
    /\ req[r].res[1].date # req[r].res[2].date

----------------------------------------------------------------------------
(* Properties of POST /signin and of the signup-signin round trip *)

\* the store executes in this step the findOne of the signin r and replies
SigninLookup(r) ==
  /\ req[r].kind = "signin"
  /\ Executes(r, "findOne")
  /\ req'[r].reply.err = "none"

\* the positions of the stored accounts with that email
StoredWith(email) == {i \in 1..Len(users) : users[i].email = email}

\* the lookup finds the stored account, and finds nothing only when there is none
SigninFinds(r) ==
  IF StoredWith(req[r].body.email) = {}
  THEN req'[r].reply.value = Null
  ELSE \E i \in StoredWith(req[r].body.email) : req'[r].reply.value = users[i]

\* request r is a signup answered with 201
SignedUp(q) == Done(q) /\ q.kind = "signup" /\ q.status = 201

\* the signups on record that created the account acct
SignupsOf(acct) ==
  {r1 \in Reqs : SignedUp(req[r1]) /\ req[r1].res.userId = acct.id}

\* what POST /signin answers to request r in this step, no exception thrown:
\* q.user is the account the lookup found, null when it found none; the
\* account's password is the one its signup sent
SigninOutcome(r) ==
  LET q == req'[r]
      acct == q.user
  IN /\ acct = Null =>
          /\ q.status = 401
          /\ q.res = Msg("Invalid credentials.")
     /\ acct # Null =>
          /\ \E i \in StoredWith(q.body.email) : users[i] = acct
          /\ q.status = 200 =>
               /\ q.res.token.sig = JWT_SECRET
               /\ q.res.token.payload.userId = ObjectIdToString(acct.id)
               /\ q.res.token.payload.email = acct.email
               /\ q.res.token.payload.accountName = acct.accountName
          /\ q.status # 200 =>
               /\ q.status = 401
               /\ q.res = Msg("Invalid credentials.")
          /\ \A r1 \in SignupsOf(acct) :
               q.status = 200 <=> q.body.password = req[r1].body.password

\* C7: signin with the email and password of a stored account returns 200 with
\* a token whose userId, email and accountName are that account's; signin with
\* an unknown email or a wrong password returns 401 with the same body. The
\* account is the one stored when the store executes the signin's lookup, and
\* a password is wrong when it is not the one the account was signed up with.
C7_Signin ==
  [][\A r \in Reqs :
       /\ SigninLookup(r) => SigninFinds(r)
       /\ Answered(r) /\ req'[r].kind = "signin" /\ req'[r].err = "none"
            => SigninOutcome(r)]_vars

\* the account of the signup q is stored under its email, with a hash in place
\* of the password
StoredHashed(q) ==
  LET acct == FindUserByEmail(users', q.body.email)
  IN /\ acct # Null
     /\ acct.id = q.res.userId
     /\ acct.accountName = q.body.accountName
     /\ acct.password # q.body.password
     /\ IsBcryptHash(acct.password)

\* C8: after a signup with a fresh email and password p returned 201, the
\* account is retrievable by that email, its stored password is a hash and not
\* p, signin with that email and p returns 200, and signin with that email and
\* any other password returns 401: a lookup the store executes after the 201
\* finds the account, and a signin that found it is answered by its password.
C8_RoundTrip ==
  [][\A r1 \in Reqs :
       /\ SignedUp(req'[r1]) => StoredHashed(req'[r1])
       /\ SignedUp(req[r1]) =>
            \A r2 \in Reqs :
              /\ SigninLookup(r2) /\ req[r2].body.email = req[r1].body.email
                   => /\ req'[r2].reply.value # Null
                      /\ req'[r2].reply.value.id = req[r1].res.userId
              /\ Executes(r2, "compare") /\ req[r2].kind = "signin"
                 /\ req[r2].body.email = req[r1].body.email
                 /\ req'[r2].err = "none"
                   => IF req[r2].body.password = req[r1].body.password
                      THEN req'[r2].status = 200
                      ELSE req'[r2].status = 401]_vars

----------------------------------------------------------------------------
(* Properties of the whole server *)

\* exactly one document was inserted into s
OneInserted(s, t) == Len(t) = Len(s) + 1 /\ SubSeq(t, 1, Len(s)) = s

\* the store executes a create of request r in this step
Creates(r) == Executes(r, "create") \/ Executes(r, "bookingCreate")

\* C9: every request gets exactly one response; a request answered with 401,
\* 403, 409 or 500 (also a 500 from an exception of hashing or persistence)
\* leaves both collections as they were; the collections change only with a 201
\* response, and then by exactly one inserted record: a create that changes a
\* collection is acknowledged, and an acknowledged create is answered with 201.
C9_NoPartialSuccess ==
  [][/\ \A r \in Reqs :
          /\ Answered(r) => req'[r].status \in {200, 201} \cup ErrorStatuses
          /\ Answered(r) => users' = users /\ bookings' = bookings
          /\ Answered(r) /\ req[r].pc \in {"createReply", "bookingCreateReply"}
               => (req'[r].status = 201 <=> req[r].reply.err = "none")
          /\ Done(req[r]) => req'[r] = req[r] \/ req'[r] = Idle
     /\ users' # users \/ bookings' # bookings =>
          /\ \E r \in Reqs :
               /\ Creates(r) /\ req'[r].reply.err = "none"
               /\ \A o \in Reqs \ {r} : req'[o] = req[o]
          /\ \/ OneInserted(users, users') /\ bookings' = bookings
             \/ OneInserted(bookings, bookings') /\ users' = users]_vars

\* every booking's owner is a stored account
OwnersExist(us, bs) ==
  \A j \in 1..Len(bs) : \E k \in 1..Len(us) : us[k].id = bs[j].userId

\* C10: the collections are append-only: a stored account or booking stays,
\* with unchanged fields, in every later state; only a successful POST /signup
\* adds an account and only a successful POST /bookings adds a booking; every
\* booking's owner is an account of the User collection.
C10_AppendOnly ==
  [][/\ Len(users') >= Len(users)
     /\ \A i \in 1..Len(users) : users'[i] = users[i]
     /\ Len(bookings') >= Len(bookings)
     /\ \A j \in 1..Len(bookings) : bookings'[j] = bookings[j]
     /\ users' # users =>
          \E r \in Reqs :
            /\ req[r].kind = "signup" /\ Executes(r, "create")
            /\ req'[r].reply.err = "none"
     /\ bookings' # bookings =>
          \E r \in Reqs :
            /\ req[r].kind = "postBookings" /\ Executes(r, "bookingCreate")
            /\ req'[r].reply.err = "none"
     /\ OwnersExist(users', bookings')]_vars

====
